---- MODULE Spec2Model ----
(***************************************************************************)
(* FIDAS -> IQAir uploader.  Two poll loops of the repository are modelled: *)
(*   prog = "ftp" : src/upload_to_iqair.py      (offset-based resumption)   *)
(*   prog = "sql" : src/sql_version_example.py  (timestamp-based)           *)
(* Init picks which program runs; the two share the clock, the raw source,  *)
(* the processing_status table and the CSV directory.                       *)
(*                                                                         *)
(* Time is counted in ticks (one tick = one second of the raw records'      *)
(* "%I:%M:%S %p" resolution), with a scaled-down minute and hour.           *)
(* A raw record is its parsed date_time in ticks; BadStamp stands for a     *)
(* date/time text that does not match the format.  An hourly mean is        *)
(* represented by the set of raw records it is taken over.                  *)
(***************************************************************************)
EXTENDS Integers, Sequences, FiniteSets, TLC

VARIABLES
    prog,          \* which main() runs: "ftp" or "sql"
    pc,            \* position of main(): boot, connect, list, process, send, quit, sleep,
                   \* down (stopped between two cycles), crashed (left by an exception)
    clock,         \* wall clock, in ticks
    raw,           \* raw source -> sequence of records (remote file / sensor_data table)
    db,            \* processing_status table: key -> row
    csv,           \* CSV directory: artifact name -> sequence of lines
    txt_files,     \* main(): the sorted listing of this cycle
    idx,           \* main(): position of the for loop in txt_files
    csv_data,      \* main(): batch returned by process_file / process_sensor_data, or NoBatch
    out_name,      \* main(): output_filename of the batch
    current_hour,  \* the clock hour at which completeness was last evaluated
    api_response,  \* main(): what send_csv_data returned last
    \* ---- history variables (not program state) ----
    steps,         \* what the handling of the current source did, in order
    written,       \* number of records the instruments have written so far
    clean,         \* no failure was injected and no source shrank so far
    fresh,         \* the source last attempted, failure-free, with its records and the
                   \* clock hour unchanged since (a set of at most one source)
    emitted,       \* every aggregate row produced so far, in order
    pending,       \* records <<source, position>> a failure-free cycle read as new while
                   \* their hour was the open hour
    addedDown,     \* the first record <<source, position>> written, with the time of
                   \* writing as its timestamp, while the process was down, if any
    undelivered,   \* the batches whose delivery failed, their records being in the
                   \* source, at the same positions, ever since they were aggregated
    shrunk         \* sources that shrank since a batch was last aggregated from them

vars == <<prog, pc, clock, raw, db, csv, txt_files, idx, csv_data, out_name,
          current_hour, api_response, steps, written, clean, fresh,
          emitted, pending, addedDown, undelivered, shrunk>>

hist == <<emitted, pending, addedDown, undelivered, shrunk>>

-----------------------------------------------------------------------------
(* Bounds of the model *)
MaxRows == 2
MaxHour == 2

(* Scaled units of time: seconds per minute, minutes per hour *)
SecPerMin == 2
MinPerHour == 2

TicksPerHour == SecPerMin * MinPerHour
MaxClock == (MaxHour + 1) * TicksPerHour - 1
Ticks == 0..MaxClock
BadStamp == -1

\* The timestamps the instruments write.  upload_to_iqair.py reads a record only
\* through floor("h") and floor("min"), so its records are drawn on whole minutes;
\* sql_version_example.py compares full timestamps, so its records carry seconds.
Stamps == {t \in Ticks : prog = "sql" \/ t % SecPerMin = 0}

None == "None"

\* process_file returns (None, None): no batch
NoBatch == <<>>

-----------------------------------------------------------------------------
(* Time conversions *)

\* Timestamp.floor("min")
FloorMin(t) == t - (t % SecPerMin)

\* Timestamp.floor("h")
FloorHour(t) == t - (t % TicksPerHour)

\* strftime("%Y%m%dT%H%M") + "+0400": minute resolution, the seconds are dropped
Strftime(t) == ToString(t \div SecPerMin) \o "+0400"

\* datetime.strptime(s[:13], "%Y%m%dT%H%M"): the instant a stored string names
Strptime(s) == CHOOSE t \in Ticks : t % SecPerMin = 0 /\ Strftime(t) = s

\* (mutant) no date/time text is refused
ParseNeverFails(recs) == FALSE

\* pd.to_datetime(date + " " + time, format=...) raises ValueError on any bad text
ParseFails(recs) == \E i \in DOMAIN recs : recs[i] = BadStamp

-----------------------------------------------------------------------------
(* Remote files *)

\* A file name is the sequence of its tokens; "_", "." and "/" are tokens of their own.
F1 == <<"DUSTMONITOR", "_", "17712", "_", "2025", "_", "03", ".", "txt">>
F2 == <<"DUSTMONITOR", "_", "17713", "_", "2025", "_", "03", ".", "txt">>
PROCESSING_KEY == <<"sensor_data">>

\* sorted(...) of the .txt names of the FTP directory
SortedTxtFiles == <<F1, F2>>

Sources == IF prog = "ftp" THEN {F1, F2} ELSE {PROCESSING_KEY}

DigitStrings == {"17712", "17713", "2025", "03"}

\* os.path.basename: what follows the last "/"
Basename(name) ==
    LET slashes == {i \in DOMAIN name : name[i] = "/"}
    IN  IF slashes = {} THEN name
        ELSE SubSeq(name, (CHOOSE i \in slashes : \A j \in slashes : j <= i) + 1, Len(name))

\* str.split(sep): the parts between the occurrences of sep (at least one part)
RECURSIVE Split(_, _)
Split(name, sep) ==
    LET seps == {i \in DOMAIN name : name[i] = sep}
    IN  IF seps = {} THEN <<name>>
        ELSE LET first == CHOOSE i \in seps : \A j \in seps : i <= j
             IN  <<SubSeq(name, 1, first - 1)>> \o Split(SubSeq(name, first + 1, Len(name)), sep)

\* str.isdigit(): not empty and digits only
IsDigit(part) == part # <<>> /\ \A i \in DOMAIN part : part[i] \in DigitStrings

\* build_output_filename: parts = base_name.split("_"), year = parts[2],
\* month = parts[3].split(".")[0]; the fallback name is made of the clock value
build_output_filename(filename, now) ==
    LET parts == Split(Basename(filename), "_")
    IN  IF Len(parts) >= 4 /\ IsDigit(parts[3]) /\ IsDigit(Split(parts[4], ".")[1])
        THEN <<"NYUAD_FIDAS_DATA", "_">> \o parts[3] \o <<"_">>
                 \o Split(parts[4], ".")[1] \o <<".", "csv">>
        ELSE <<"NYUAD_FIDAS_DATA", "_", ToString(now), ".", "csv">>

-----------------------------------------------------------------------------
(* Progress store *)

\* get_processing_status_for_file
get_processing_status_for_file(d, filename) ==
    IF filename \notin DOMAIN d
    THEN [last_raw_timestamp |-> None, last_avg_timestamp |-> None, last_row |-> 0]
    ELSE d[filename]

\* (mutant) the row is replaced: the fields not passed get their defaults
replace_processing_status(d, filename, kw) ==
    [k \in DOMAIN d \cup {filename} |->
        IF k = filename
        THEN [last_raw_timestamp |->
                  IF "last_raw_timestamp" \in DOMAIN kw THEN kw.last_raw_timestamp ELSE "",
              last_avg_timestamp |->
                  IF "last_avg_timestamp" \in DOMAIN kw THEN kw.last_avg_timestamp ELSE "",
              last_row |-> IF "last_row" \in DOMAIN kw THEN kw.last_row ELSE 0]
        ELSE d[k]]

\* (mutant) the last_row passed is not stored
update_without_last_row(d, filename, kw) ==
    IF filename \in DOMAIN d
    THEN [d EXCEPT ![filename] =
            [c \in DOMAIN @ |-> IF c \in DOMAIN kw /\ c # "last_row" THEN kw[c] ELSE @[c]]]
    ELSE [k \in DOMAIN d \cup {filename} |->
            IF k = filename
            THEN [last_raw_timestamp |->
                      IF "last_raw_timestamp" \in DOMAIN kw THEN kw.last_raw_timestamp ELSE "",
                  last_avg_timestamp |->
                      IF "last_avg_timestamp" \in DOMAIN kw THEN kw.last_avg_timestamp ELSE "",
                  last_row |-> 0]
            ELSE d[k]]

\* (mutant) UPDATE without WHERE filename = ?: every row takes the fields passed
update_every_row(d, filename, kw) ==
    [k \in DOMAIN d \cup {filename} |->
        IF k \in DOMAIN d
        THEN [c \in DOMAIN d[k] |-> IF c \in DOMAIN kw THEN kw[c] ELSE d[k][c]]
        ELSE [last_raw_timestamp |->
                  IF "last_raw_timestamp" \in DOMAIN kw THEN kw.last_raw_timestamp ELSE "",
              last_avg_timestamp |->
                  IF "last_avg_timestamp" \in DOMAIN kw THEN kw.last_avg_timestamp ELSE "",
              last_row |-> IF "last_row" \in DOMAIN kw THEN kw.last_row ELSE 0]]

\* (mutant) "if last_row:" in place of "if last_row is not None:": a last_row
\* of 0 is not stored in an existing row
update_if_truthy(d, filename, kw) ==
    IF filename \in DOMAIN d
    THEN [d EXCEPT ![filename] =
            [c \in DOMAIN @ |->
                IF c \in DOMAIN kw /\ kw[c] # 0 THEN kw[c] ELSE @[c]]]
    ELSE [k \in DOMAIN d \cup {filename} |->
            IF k = filename
            THEN [last_raw_timestamp |->
                      IF "last_raw_timestamp" \in DOMAIN kw THEN kw.last_raw_timestamp ELSE "",
                  last_avg_timestamp |->
                      IF "last_avg_timestamp" \in DOMAIN kw THEN kw.last_avg_timestamp ELSE "",
                  last_row |-> IF "last_row" \in DOMAIN kw THEN kw.last_row ELSE 0]
            ELSE d[k]]

\* update_processing_status(db_path, filename, **kw): kw holds the arguments passed
update_processing_status(d, filename, kw) ==
    IF filename \in DOMAIN d
    THEN [d EXCEPT ![filename] =
            [c \in DOMAIN @ |-> IF c \in DOMAIN kw THEN kw[c] ELSE @[c]]]
    ELSE [k \in DOMAIN d \cup {filename} |->
            IF k = filename
            THEN [last_raw_timestamp |->
                      IF "last_raw_timestamp" \in DOMAIN kw THEN kw.last_raw_timestamp ELSE "",
                  last_avg_timestamp |->
                      IF "last_avg_timestamp" \in DOMAIN kw THEN kw.last_avg_timestamp ELSE "",
                  last_row |-> IF "last_row" \in DOMAIN kw THEN kw.last_row ELSE 0]
            ELSE d[k]]

\* (mutant) a stored offset beyond the end of the file is kept
KeepOffset(last_row, total_rows) == last_row

\* if last_row > total_rows: last_row = 0
ResetOffset(last_row, total_rows) == IF last_row > total_rows THEN 0 ELSE last_row

-----------------------------------------------------------------------------
(* Hourly aggregation *)

Range(f) == {f[x] : x \in DOMAIN f}

Max(S) == CHOOSE x \in S : \A y \in S : y <= x
Min(S) == CHOOSE x \in S : \A y \in S : x <= y

\* ascending sequence of the elements of a finite set of integers
RECURSIVE Ascending(_)
Ascending(S) == IF S = {} THEN <<>> ELSE <<Min(S)>> \o Ascending(S \ {Min(S)})

\* (mutant) the open hour is taken as completed
CompleteDataInclusive(recs, new, hour_now) == {i \in new : FloorHour(recs[i]) <= hour_now}

\* df_new[df_new["hour"] < current_hour]: positions of the completed-hour records
CompleteData(recs, new, hour_now) == {i \in new : FloorHour(recs[i]) < hour_now}

\* (mutant) groupby(..., sort=False): the hours in the order of their first record
RECURSIVE ByAppearance(_, _)
ByAppearance(recs, complete) ==
    IF complete = {} THEN <<>>
    ELSE LET h == FloorHour(recs[Min(complete)])
         IN  <<h>> \o ByAppearance(recs, {j \in complete : FloorHour(recs[j]) # h})

GroupByAppearance(src, recs, complete) ==
    LET hours == ByAppearance(recs, complete)
    IN  [k \in DOMAIN hours |->
            [datetime |-> Strftime(hours[k]),
             recs |-> {<<src, i>> : i \in {j \in complete : FloorHour(recs[j]) = hours[k]}}]]

\* complete_data.groupby("hour").agg(mean) with the "datetime" column:
\* one row per distinct hour, ascending, the mean taken over that hour's records
GroupByHour(src, recs, complete) ==
    LET hours == Ascending({FloorHour(recs[i]) : i \in complete})
    IN  [k \in DOMAIN hours |->
            [datetime |-> Strftime(hours[k]),
             recs |-> {<<src, i>> : i \in {j \in complete : FloorHour(recs[j]) = hours[k]}}]]

\* (mutant) the maximum is taken over all the rows read, the open hour included
NewLastRawOfAll(recs, complete) == Strftime(FloorMin(Max(Range(recs))))

\* complete_data["date_time"].max().floor("min").strftime(...) + "+0400"
NewLastRaw(recs, complete) == Strftime(FloorMin(Max({recs[i] : i \in complete})))

HEADER == [datetime |-> "datetime", recs |-> {}]

\* (mutant) the file is written anew, header first, whether it exists or not
OverwriteCsv(c, name, rows) ==
    [n \in DOMAIN c \cup {name} |-> IF n = name THEN <<HEADER>> \o rows ELSE c[n]]

\* csv_data.to_csv(output_file, mode="a", header=False) / to_csv(output_file)
AppendCsv(c, name, rows) ==
    IF name \in DOMAIN c
    THEN [c EXCEPT ![name] = @ \o rows]
    ELSE [n \in DOMAIN c \cup {name} |-> IF n = name THEN <<HEADER>> \o rows ELSE c[n]]

-----------------------------------------------------------------------------
Init ==
    /\ prog \in {"ftp", "sql"}
    /\ pc = "boot"
    /\ clock = 0
    /\ raw = [s \in Sources |-> <<>>]
    /\ db = <<>>
    /\ csv = <<>>
    /\ txt_files = <<>>
    /\ idx = 0
    /\ csv_data = NoBatch
    /\ out_name = <<>>
    /\ current_hour = 0
    /\ api_response = None
    /\ steps = <<>>
    /\ written = 0
    /\ clean = TRUE
    /\ fresh = {}
    /\ emitted = <<>>
    /\ pending = {}
    /\ addedDown = {}
    /\ undelivered = {}
    /\ shrunk = {}

-----------------------------------------------------------------------------
(* Environment *)

\* the instrument appends one line / one row to a raw source
AppendRecord ==
    \E s \in Sources, t \in Stamps \cup {BadStamp} :
        /\ written < MaxRows
        /\ t # BadStamp => FloorHour(t) <= FloorHour(clock)
        /\ raw' = [raw EXCEPT ![s] = Append(@, t)]
        /\ written' = written + 1
        /\ fresh' = fresh \ {s}
        /\ addedDown' = IF pc = "down" /\ addedDown = {} /\ FloorMin(t) = FloorMin(clock)
                        THEN {<<s, Len(raw[s]) + 1>>} ELSE addedDown
        /\ UNCHANGED <<prog, pc, clock, db, csv, txt_files, idx, csv_data, out_name,
                       current_hour, api_response, steps, clean,
                       emitted, pending, undelivered, shrunk>>

\* a remote file is truncated or rotated: its content becomes a strict prefix
Truncate ==
    \E s \in Sources, n \in 0..MaxRows :
        /\ prog = "ftp"
        /\ n < Len(raw[s])
        /\ raw' = [raw EXCEPT ![s] = SubSeq(@, 1, n)]
        /\ fresh' = fresh \ {s}
        /\ clean' = FALSE
        /\ pending' = {r \in pending : r[1] # s \/ r[2] <= n}
        /\ addedDown' = {r \in addedDown : r[1] # s \/ r[2] <= n}
        /\ undelivered' = {b \in undelivered :
                              \A k \in DOMAIN b : \A r \in b[k].recs : r[1] # s \/ r[2] <= n}
        /\ shrunk' = shrunk \cup {s}
        /\ UNCHANGED <<prog, pc, clock, db, csv, txt_files, idx, csv_data, out_name,
                       current_hour, api_response, steps, written, emitted>>

\* an hour passes (the programs read the clock through floor("h"))
AdvanceClock ==
    /\ clock + TicksPerHour <= MaxClock
    /\ clock' = clock + TicksPerHour
    /\ fresh' = {}
    /\ UNCHANGED <<prog, pc, raw, db, csv, txt_files, idx, csv_data, out_name,
                   current_hour, api_response, steps, written, clean, hist>>

-----------------------------------------------------------------------------
(* upload_to_iqair.py: main() *)

\* setup_database: CREATE TABLE IF NOT EXISTS keeps the rows of an existing table
setup_database(d) == d

Boot ==
    /\ prog = "ftp"
    /\ pc = "boot"
    /\ db' = setup_database(db)
    /\ pc' = "connect"
    /\ UNCHANGED <<prog, clock, raw, csv, txt_files, idx, csv_data, out_name,
                   current_hour, api_response, steps, written, clean, fresh, hist>>

\* create_ftp_client: None on a connection or login failure, the cycle is skipped
Connect ==
    /\ prog = "ftp"
    /\ pc = "connect"
    /\ \E ok \in BOOLEAN :
        /\ pc' = IF ok THEN "list" ELSE "sleep"
        /\ clean' = (clean /\ ok)
    /\ UNCHANGED <<prog, clock, raw, db, csv, txt_files, idx, csv_data, out_name,
                   current_hour, api_response, steps, written, fresh, hist>>

\* list_remote_txt_files: [] on a listing failure; then the for loop starts
List ==
    /\ prog = "ftp"
    /\ pc = "list"
    /\ \E ok \in BOOLEAN :
        /\ txt_files' = IF ok THEN SortedTxtFiles ELSE <<>>
        /\ pc' = IF ok /\ Len(SortedTxtFiles) > 0 THEN "process" ELSE "quit"
        /\ clean' = (clean /\ ok)
    /\ idx' = 1
    /\ UNCHANGED <<prog, clock, raw, db, csv, csv_data, out_name,
                   current_hour, api_response, steps, written, fresh, hist>>

\* (mutant) the for loop is left after any file
LeaveLoop(i) == "quit"

\* the for loop moves to the next file, or to finally: ftp.quit()
AfterFile(i) == IF i < Len(txt_files) THEN "process" ELSE "quit"

Faults == {"none", "db_read", "retrieve", "missing_column", "csv_write", "db_write"}

\* process_file returned (None, None): main logs and goes on
ReturnNone(filename, failed) ==
    /\ csv_data' = NoBatch
    /\ pc' = AfterFile(idx)
    /\ idx' = idx + 1
    /\ clean' = (clean /\ ~failed)
    /\ fresh' = IF failed THEN {} ELSE {filename}

\* an sqlite3 error is caught nowhere: it leaves process_file, the for loop
\* (through finally: ftp.quit()) and main()
Crash ==
    /\ pc' = "crashed"
    /\ clean' = FALSE
    /\ fresh' = {}
    /\ csv_data' = NoBatch
    /\ UNCHANGED idx

\* one iteration of the for loop up to the return of process_file
ProcessFile ==
    /\ prog = "ftp"
    /\ pc = "process"
    /\ \E fault \in Faults :
        LET filename == txt_files[idx]
            output_filename == build_output_filename(filename, clock)
            status == get_processing_status_for_file(db, filename)
            dataframe == raw[filename]
            total_rows == Len(dataframe)
            last_row == ResetOffset(status.last_row, total_rows)
            new == (last_row + 1)..total_rows
            df_new == [i \in new |-> dataframe[i]]
            hour_now == FloorHour(clock)
            complete_data == CompleteData(dataframe, new, hour_now)
            grouped == GroupByHour(filename, dataframe, complete_data)
            incomplete == {<<filename, i>> : i \in new \ complete_data}
            \* the warning "Resetting last_row to 0" was logged
            reset == IF status.last_row > total_rows THEN <<"reset">> ELSE <<>>
        IN
        /\ out_name' = output_filename
        /\ IF fault = "db_read" THEN
              /\ steps' = <<"db_error">>
              /\ Crash
              /\ UNCHANGED <<db, csv, current_hour, emitted, pending>>
           ELSE IF fault = "retrieve" THEN
              /\ steps' = <<"retrieve_failed">>
              /\ ReturnNone(filename, TRUE)
              /\ UNCHANGED <<db, csv, current_hour, emitted, pending>>
           ELSE IF total_rows = 0 THEN
              IF fault = "db_write" THEN
                 /\ steps' = <<"db_error">>
                 /\ Crash
                 /\ UNCHANGED <<db, csv, current_hour, emitted, pending>>
              ELSE
                 /\ db' = update_processing_status(db, filename, [last_row |-> 0])
                 /\ steps' = <<"update">>
                 /\ ReturnNone(filename, FALSE)
                 /\ UNCHANGED <<csv, current_hour, emitted, pending>>
           ELSE IF total_rows = last_row THEN
              /\ steps' = <<>>
              /\ ReturnNone(filename, FALSE)
              /\ UNCHANGED <<db, csv, current_hour, emitted, pending>>
           ELSE IF ParseFails(df_new) \/ fault = "missing_column" THEN
              \* ValueError of to_datetime, or KeyError: no "date" or "time" column
              /\ steps' = reset \o <<"parse_failed">>
              /\ ReturnNone(filename, TRUE)
              /\ UNCHANGED <<db, csv, current_hour, emitted, pending>>
           ELSE IF complete_data = {} THEN
              /\ current_hour' = hour_now
              /\ IF fault = "db_write" THEN
                    /\ steps' = reset \o <<"db_error">>
                    /\ Crash
                    /\ UNCHANGED <<db, csv, emitted, pending>>
                 ELSE
                    /\ db' = update_processing_status(db, filename, [last_row |-> total_rows])
                    /\ steps' = reset \o <<"update">>
                    /\ ReturnNone(filename, FALSE)
                    /\ pending' = pending \cup incomplete
                    /\ UNCHANGED <<csv, emitted>>
           ELSE IF fault = "csv_write" THEN
              /\ current_hour' = hour_now
              /\ steps' = reset \o <<"csv_failed">>
              /\ ReturnNone(filename, TRUE)
              /\ UNCHANGED <<db, csv, emitted, pending>>
           ELSE
              /\ current_hour' = hour_now
              /\ csv' = AppendCsv(csv, output_filename, grouped)
              /\ emitted' = emitted \o grouped
              /\ IF fault = "db_write" THEN
                    /\ steps' = reset \o <<"append", "db_error">>
                    /\ Crash
                    /\ UNCHANGED <<db, pending>>
                 ELSE
                    /\ db' = update_processing_status(db, filename,
                              [last_raw_timestamp |-> NewLastRaw(dataframe, complete_data),
                               last_avg_timestamp |-> grouped[Len(grouped)].datetime,
                               last_row |-> total_rows])
                    /\ steps' = reset \o <<"append", "update">>
                    /\ csv_data' = grouped
                    /\ pc' = "send"
                    /\ clean' = clean
                    /\ fresh' = {filename}
                    /\ pending' = pending \cup incomplete
                    /\ UNCHANGED idx
        /\ shrunk' = IF pc' = "send" THEN shrunk \ {filename} ELSE shrunk
    /\ UNCHANGED <<prog, clock, raw, txt_files, api_response, written,
                   addedDown, undelivered>>

SendOutcomes == {"ok", "network", "http", "json"}

\* send_csv_data: the parsed JSON, or None on a transport error (network),
\* a non-2xx status (http) or an unparsable body (json)
send_csv_data(outcome) == IF outcome = "ok" THEN "json" ELSE None

\* (mutant) the ValueError of response.json() is not caught
SendRaisesOnBadJson(outcome) == outcome = "json"

\* send_csv_data catches requests.RequestException, requests.HTTPError and
\* ValueError: no outcome raises out of it
SendRaises(outcome) == FALSE

\* the source a batch was aggregated from
BatchSource(batch) == (CHOOSE r \in batch[1].recs : TRUE)[1]

\* history of a delivery attempt
Delivered(outcome) ==
    /\ steps' = Append(steps, IF outcome = "ok" THEN "deliver" ELSE "deliver_failed")
    /\ clean' = (clean /\ outcome = "ok")
    /\ undelivered' = IF outcome = "ok" \/ BatchSource(csv_data) \in shrunk
                      THEN undelivered ELSE undelivered \cup {csv_data}

SendCsv ==
    /\ prog = "ftp"
    /\ pc = "send"
    /\ \E outcome \in SendOutcomes :
        /\ api_response' = send_csv_data(outcome)
        /\ Delivered(outcome)
        /\ IF SendRaises(outcome)
           THEN pc' = "crashed" /\ UNCHANGED idx
           ELSE pc' = AfterFile(idx) /\ idx' = idx + 1
    /\ UNCHANGED <<prog, clock, raw, db, csv, txt_files, csv_data, out_name,
                   current_hour, written, fresh, emitted, pending, addedDown, shrunk>>

\* finally: ftp.quit(); the locals of this cycle are dead from here on
Quit ==
    /\ prog = "ftp"
    /\ pc = "quit"
    /\ pc' = "sleep"
    /\ txt_files' = <<>>
    /\ idx' = 0
    /\ csv_data' = NoBatch
    /\ out_name' = <<>>
    /\ current_hour' = 0
    /\ api_response' = None
    /\ steps' = <<>>
    /\ UNCHANGED <<prog, clock, raw, db, csv, written, clean, fresh, hist>>

\* sleep_until_next_run(interval_seconds=60) / time.sleep(60): a minute passes,
\* then the next turn of while True
Sleep ==
    /\ pc = "sleep"
    /\ clock + SecPerMin <= MaxClock
    /\ clock' = clock + SecPerMin
    /\ pc' = IF prog = "ftp" THEN "connect" ELSE "fetch"
    /\ fresh' = IF FloorHour(clock') = FloorHour(clock) THEN fresh ELSE {}
    /\ csv_data' = NoBatch
    /\ out_name' = <<>>
    /\ current_hour' = 0
    /\ api_response' = None
    /\ steps' = <<>>
    /\ UNCHANGED <<prog, raw, db, csv, txt_files, idx, written, clean, hist>>

\* the process is stopped between two cycles ...
Stop ==
    /\ pc = "sleep"
    /\ pc' = "down"
    /\ csv_data' = NoBatch
    /\ out_name' = <<>>
    /\ current_hour' = 0
    /\ api_response' = None
    /\ steps' = <<>>
    /\ UNCHANGED <<prog, clock, raw, db, csv, txt_files, idx, written, clean, fresh,
                   emitted, pending, addedDown, undelivered, shrunk>>

\* ... and started again, when the sleep it was stopped in would have ended
Start ==
    /\ pc = "down"
    /\ clock + SecPerMin <= MaxClock
    /\ clock' = clock + SecPerMin
    /\ fresh' = IF FloorHour(clock') = FloorHour(clock) THEN fresh ELSE {}
    /\ pc' = "boot"
    /\ UNCHANGED <<prog, raw, db, csv, txt_files, idx, csv_data, out_name,
                   current_hour, api_response, steps, written, clean, hist>>

-----------------------------------------------------------------------------
(* sql_version_example.py *)

\* setup_processing_db: CREATE TABLE IF NOT EXISTS keeps the rows of an existing table
setup_processing_db(d) == d

SqlBoot ==
    /\ prog = "sql"
    /\ pc = "boot"
    /\ db' = setup_processing_db(db)
    /\ pc' = "fetch"
    /\ UNCHANGED <<prog, clock, raw, csv, txt_files, idx, csv_data, out_name,
                   current_hour, api_response, steps, written, clean, fresh, hist>>

\* get_processing_status: a missing row and an empty string both read as None
get_processing_status(d, key) ==
    IF key \notin DOMAIN d
    THEN [last_raw_timestamp |-> None, last_avg_timestamp |-> None]
    ELSE [last_raw_timestamp |->
              IF d[key].last_raw_timestamp # "" THEN d[key].last_raw_timestamp ELSE None,
          last_avg_timestamp |->
              IF d[key].last_avg_timestamp # "" THEN d[key].last_avg_timestamp ELSE None]

\* update_processing_status(db_path, key, **kw) of the SQL variant
sql_update_processing_status(d, key, kw) ==
    IF key \in DOMAIN d
    THEN [d EXCEPT ![key] =
            [c \in DOMAIN @ |-> IF c \in DOMAIN kw THEN kw[c] ELSE @[c]]]
    ELSE [k \in DOMAIN d \cup {key} |->
            IF k = key
            THEN [last_raw_timestamp |->
                      IF "last_raw_timestamp" \in DOMAIN kw THEN kw.last_raw_timestamp ELSE "",
                  last_avg_timestamp |->
                      IF "last_avg_timestamp" \in DOMAIN kw THEN kw.last_avg_timestamp ELSE ""]
            ELSE d[k]]

\* fetch_new_sensor_data: positions of the rows of sensor_data whose date_time is
\* greater than the stored last_raw_timestamp (all rows when none is stored);
\* nothing when the table is empty or any date/time fails to parse
fetch_new_sensor_data(d, df) ==
    IF df = <<>> \/ ParseFails(df) THEN {}
    ELSE LET last_raw_timestamp == get_processing_status(d, PROCESSING_KEY).last_raw_timestamp
         IN  IF last_raw_timestamp # None
             THEN {i \in DOMAIN df : df[i] > Strptime(last_raw_timestamp)}
             ELSE DOMAIN df

\* csv_data.to_csv(output_file, index=False): the file is written anew, with a header
WriteCsv(c, name, rows) ==
    [n \in DOMAIN c \cup {name} |-> IF n = name THEN <<HEADER>> \o rows ELSE c[n]]

\* f"NYUAD_FIDAS_DATA_{now:%Y%m%d_%H%M%S}.csv"
sql_output_filename(now) == <<"NYUAD_FIDAS_DATA", ToString(now), "csv">>

SqlFaults == {"none", "db_read", "missing_column", "csv_write", "db_write"}

\* one turn of while True up to the call of send_csv_data
SqlCycle ==
    /\ prog = "sql"
    /\ pc = "fetch"
    /\ \E fault \in SqlFaults :
        LET df == raw[PROCESSING_KEY]
            \* KeyError: no "date" or "time" column, caught by except Exception
            unparsed == ParseFails(df) \/ (df # <<>> /\ fault = "missing_column")
            df_new == IF unparsed THEN {} ELSE fetch_new_sensor_data(db, df)
            hour_now == FloorHour(clock)
            complete_data == CompleteData(df, df_new, hour_now)
            group == GroupByHour(PROCESSING_KEY, df, complete_data)
            output_filename == sql_output_filename(clock)
            incomplete == {<<PROCESSING_KEY, i>> : i \in df_new \ complete_data}
        IN
        IF fault = "db_read" THEN
           /\ steps' = <<"db_error">>
           /\ Crash
           /\ UNCHANGED <<db, csv, current_hour, out_name, emitted, pending>>
        ELSE IF df_new = {} THEN
           /\ steps' = IF unparsed THEN <<"parse_failed">> ELSE <<>>
           /\ clean' = (clean /\ ~unparsed)
           /\ fresh' = IF unparsed THEN {} ELSE {PROCESSING_KEY}
           /\ pc' = "sleep"
           /\ UNCHANGED <<db, csv, current_hour, out_name, csv_data, idx, emitted, pending>>
        ELSE IF complete_data = {} THEN
           /\ current_hour' = hour_now
           /\ steps' = <<>>
           /\ fresh' = {PROCESSING_KEY}
           /\ pc' = "sleep"
           /\ pending' = pending \cup incomplete
           /\ UNCHANGED <<db, csv, out_name, csv_data, idx, clean, emitted>>
        ELSE
           /\ current_hour' = hour_now
           /\ out_name' = output_filename
           /\ csv' = IF fault = "csv_write" THEN csv ELSE WriteCsv(csv, output_filename, group)
           /\ emitted' = emitted \o group
           /\ IF fault = "db_write" THEN
                 /\ steps' = <<"append", "db_error">>
                 /\ Crash
                 /\ UNCHANGED <<db, pending>>
              ELSE
                 /\ db' = sql_update_processing_status(db, PROCESSING_KEY,
                           [last_raw_timestamp |-> NewLastRaw(df, complete_data),
                            last_avg_timestamp |-> group[Len(group)].datetime])
                 /\ steps' = <<IF fault = "csv_write" THEN "csv_failed" ELSE "append",
                               "update">>
                 /\ csv_data' = group
                 /\ pc' = "send"
                 /\ clean' = (clean /\ fault # "csv_write")
                 /\ fresh' = IF fault = "csv_write" THEN {} ELSE {PROCESSING_KEY}
                 /\ pending' = pending \cup incomplete
                 /\ UNCHANGED idx
    /\ UNCHANGED <<prog, clock, raw, txt_files, api_response, written,
                   addedDown, undelivered, shrunk>>

\* whether response.json() on an unparsable body raises a requests.RequestException
\* (caught) or a plain ValueError (not caught) depends on the installed requests
SqlSendOutcomes == {"ok", "network", "http", "json", "json_uncaught"}

\* send_csv_data of the SQL variant: it catches requests.RequestException only
SqlSend ==
    /\ prog = "sql"
    /\ pc = "send"
    /\ \E outcome \in SqlSendOutcomes :
        /\ api_response' = send_csv_data(outcome)
        /\ Delivered(outcome)
        /\ pc' = IF outcome = "json_uncaught" THEN "crashed" ELSE "sleep"
    /\ UNCHANGED <<prog, clock, raw, db, csv, txt_files, idx, csv_data, out_name,
                   current_hour, written, fresh, emitted, pending, addedDown, shrunk>>

Next ==
    \/ AppendRecord
    \/ Truncate
    \/ AdvanceClock
    \/ Boot
    \/ Connect
    \/ List
    \/ ProcessFile
    \/ SendCsv
    \/ Quit
    \/ Sleep
    \/ Stop
    \/ Start
    \/ SqlBoot
    \/ SqlCycle
    \/ SqlSend

Spec == Init /\ [][Next]_vars

-----------------------------------------------------------------------------
(* build_output_filename on its own: main() calls it once per file name and cycle *)

\* names a directory listing can hold
Names ==
    { F1, F2,
      <<"in", "/", "DUSTMONITOR", "_", "17712", "_", "2025", "_", "03", ".", "txt">>,
      <<"DUSTMONITOR", "_", "17712", "_", "2025", "_", "03", "_", "old", ".", "txt">>,
      <<"DUSTMONITOR", "_", "17712", "_", "2025", "_", "03", ".", "bak", ".", "txt">>,
      <<"DUSTMONITOR", "_", "2025", "_", "03", ".", "txt">>,
      <<"DUSTMONITOR", "_", "17712", "_", "year", "_", "03", ".", "txt">>,
      <<"DUSTMONITOR", "_", "17712", "_", "2025", "_", "mar", ".", "txt">>,
      <<"DUSTMONITOR", "_", "17712", "_", "2025", "_", ".", "txt">>,
      <<"readme", ".", "txt">> }

InitNames ==
    /\ prog = "ftp"
    /\ pc = "name"
    /\ clock = 0
    /\ raw = [s \in Sources |-> <<>>]
    /\ db = <<>>
    /\ csv = <<>>
    /\ txt_files \in {<<n>> : n \in Names}
    /\ idx = 1
    /\ csv_data = NoBatch
    /\ out_name = <<>>
    /\ current_hour = 0
    /\ api_response = None
    /\ steps = <<>>
    /\ written = 0
    /\ clean = TRUE
    /\ fresh = {}
    /\ emitted = <<>>
    /\ pending = {}
    /\ addedDown = {}
    /\ undelivered = {}
    /\ shrunk = {}

\* output_filename = build_output_filename(filename, now)
BuildName ==
    /\ pc = "name"
    /\ out_name' = build_output_filename(txt_files[idx], clock)
    /\ pc' = "named"
    /\ UNCHANGED <<prog, clock, raw, db, csv, txt_files, idx, csv_data,
                   current_hour, api_response, steps, written, clean, fresh, hist>>

\* the same name comes up again in a later cycle
NextName ==
    /\ pc = "named"
    /\ clock < MaxClock
    /\ clock' = clock + 1
    /\ pc' = "name"
    /\ out_name' = <<>>
    /\ UNCHANGED <<prog, raw, db, csv, txt_files, idx, csv_data,
                   current_hour, api_response, steps, written, clean, fresh, hist>>

NextNames == BuildName \/ NextName

SpecNames == InitNames /\ [][NextNames]_vars

-----------------------------------------------------------------------------
(* Properties *)

\* the source a row was aggregated from
RowSource(r) == (CHOOSE x \in r.recs : TRUE)[1]

\* the aggregate rows produced so far for source s
EmittedOf(s) == {r \in Range(emitted) : RowSource(r) = s}

\* one aggregation pass over all the records of s at the present clock value
BatchAggregation(s) ==
    Range(GroupByHour(s, raw[s], CompleteData(raw[s], DOMAIN raw[s], FloorHour(clock))))

\* the records a batch, or a set of batches, is taken over
RecsOf(batch) == UNION {batch[k].recs : k \in DOMAIN batch}
RecsOfAll(batches) == UNION {RecsOf(b) : b \in batches}

StampOf(r) == raw[r[1]][r[2]]
IsSet(ts) == ts \notin {"", None}

\* the program step that handles one source in one cycle
SourceStep ==
    \/ prog = "ftp" /\ pc = "process" /\ (pc' # "process" \/ idx' # idx)
    \/ prog = "sql" /\ pc = "fetch" /\ pc' # "fetch"

\* C1: after failure-free cycles over a source that was only appended to, the
\* aggregates produced over all cycles are those of one pass over all its records
\* at the last cycle's clock
IncrementalEqualsBatch ==
    \A s \in fresh : clean => EmittedOf(s) = BatchAggregation(s)

\* C2: a record first read while its hour was open is, once a later failure-free
\* cycle has run after that hour completed, in an aggregate row of that hour, and
\* last_avg_timestamp has reached that hour
PendingAggregatedLater ==
    \A r \in pending :
        (clean /\ r[1] \in fresh /\ FloorHour(StampOf(r)) < FloorHour(clock))
        => /\ \E k \in DOMAIN emitted :
                /\ r \in emitted[k].recs
                /\ emitted[k].datetime = Strftime(FloorHour(StampOf(r)))
           /\ r[1] \in DOMAIN db
           /\ IsSet(db[r[1]].last_avg_timestamp)
           /\ Strptime(db[r[1]].last_avg_timestamp) >= FloorHour(StampOf(r))

\* C3: no row of a batch handed to delivery, and no row written to a CSV, is of
\* the hour at which its cycle evaluated completeness, or of a later one
NoOpenHourInOutput ==
    /\ \A k \in DOMAIN csv_data : Strptime(csv_data[k].datetime) < current_hour
    /\ csv_data # NoBatch => current_hour <= FloorHour(clock)
    /\ \A n \in DOMAIN csv : \A k \in 2..Len(csv[n]) :
            Strptime(csv[n][k].datetime) < FloorHour(clock)
    /\ \A k \in DOMAIN emitted : Strptime(emitted[k].datetime) < FloorHour(clock)

\* C3 witness: a batch is about to be delivered while its source holds a record
\* of the open hour
OpenHourRecordLeftOut ==
    /\ pc = "send"
    /\ \E i \in DOMAIN raw[BatchSource(csv_data)] :
            FloorHour(raw[BatchSource(csv_data)][i]) = current_hour

\* C4: the rows produced for one source never repeat an hour
NoHourAggregatedTwice ==
    \A i, j \in DOMAIN emitted :
        (i < j /\ RowSource(emitted[i]) = RowSource(emitted[j]))
        => emitted[i].datetime # emitted[j].datetime

\* no record was added since the last progress update (offset: total rows = stored
\* last_row; timestamp: stored last_raw_timestamp = the minute-floored newest record)
NothingAdded ==
    \/ /\ prog = "ftp"
       /\ txt_files[idx] \in DOMAIN db
       /\ db[txt_files[idx]].last_row = Len(raw[txt_files[idx]])
    \/ /\ prog = "sql"
       /\ PROCESSING_KEY \in DOMAIN db
       /\ raw[PROCESSING_KEY] # <<>>
       /\ ~ParseFails(raw[PROCESSING_KEY])
       /\ db[PROCESSING_KEY].last_raw_timestamp
             = Strftime(FloorMin(Max(Range(raw[PROCESSING_KEY]))))

\* C5: a cycle that finds no record added since the last progress update appends
\* nothing to any CSV, changes no ProcessingStatus field and hands nothing to
\* delivery, under both resumption strategies
NoNewDataNoEffect ==
    [][(SourceStep /\ NothingAdded) => (db' = db /\ csv' = csv /\ pc' # "send")]_vars

\* C6: a cycle whose CSV write failed updates no ProcessingStatus and hands
\* nothing to delivery
CsvFailureBlocksProgress ==
    "csv_failed" \in Range(steps)
    => /\ Range(steps) \cap {"update", "deliver", "deliver_failed"} = {}
       /\ pc # "send"

\* a stored timestamp, once set, stays set and does not go back
NotEarlier(old, new) == IsSet(old) => (IsSet(new) /\ Strptime(new) >= Strptime(old))

\* C7: the stored last_raw_timestamp and last_avg_timestamp of a source never
\* decrease
TimestampsNeverDecrease ==
    [][\A s \in DOMAIN db \cap DOMAIN db' :
          /\ NotEarlier(db[s].last_raw_timestamp, db'[s].last_raw_timestamp)
          /\ NotEarlier(db[s].last_avg_timestamp, db'[s].last_avg_timestamp)]_vars

\* C8: no failure while handling a source ends the poll loop of upload_to_iqair.py:
\* the loop goes on to the next source, and after the last one to the sleep
FailureNeverEndsLoop ==
    prog = "ftp" => pc # "crashed"

\* C9: a record written while the process was down is, once a failure-free cycle
\* has run after its hour completed, in an aggregate row
AddedWhileDownNotLost ==
    \A r \in addedDown :
        (clean /\ r[1] \in fresh /\ FloorHour(StampOf(r)) < FloorHour(clock))
        => \E k \in DOMAIN emitted : r \in emitted[k].recs

\* a delivery attempt of upload_to_iqair.py that failed
FailedDelivery ==
    /\ prog = "ftp"
    /\ pc = "send"
    /\ pc' # "send"
    /\ steps' = Append(steps, "deliver_failed")

MatchesPattern(name) ==
    /\ Len(name) = 9
    /\ \A i \in {1, 3, 5, 7, 9} : name[i] \notin {"_", ".", "/"}
    /\ name[2] = "_" /\ name[4] = "_" /\ name[6] = "_" /\ name[8] = "."
    /\ name[5] \in DigitStrings /\ name[7] \in DigitStrings
    /\ name[9] = "txt"

\* C11: a name of the form <PREFIX>_<ID>_<year>_<month>.txt is mapped to
\* NYUAD_FIDAS_DATA_<year>_<month>.csv whatever the clock, and every other name
\* to a name made of the clock value
NameMapping ==
    pc = "named"
    => LET name == Basename(txt_files[idx])
       IN  IF MatchesPattern(name)
           THEN out_name = <<"NYUAD_FIDAS_DATA", "_", name[5], "_", name[7], ".", "csv">>
           ELSE out_name = <<"NYUAD_FIDAS_DATA", "_", ToString(clock), ".", "csv">>

\* C12: the stored last_row of a file counts only records that are in an
\* aggregate row: it is never advanced past a record of the still-open hour
LastRowCountsAggregatedOnly ==
    prog = "ftp"
    => \A s \in DOMAIN db : \A i \in 1..db[s].last_row :
            i <= Len(raw[s]) => \E k \in DOMAIN emitted : <<s, i>> \in emitted[k].recs

\* C13 (as claimed): the stored last_row of a file never decreases, and after a
\* file was handled it does not exceed the number of records the file holds
LastRowMonotoneAndBounded ==
    [][prog = "ftp"
       => /\ \A s \in DOMAIN db \cap DOMAIN db' : db'[s].last_row >= db[s].last_row
          /\ (SourceStep /\ txt_files[idx] \in DOMAIN db')
               => db'[txt_files[idx]].last_row <= Len(raw[txt_files[idx]])]_vars

\* C13 (amended): a progress update stores the number of records the file holds;
\* last_row decreases only when the file holds fewer records than last_row; and
\* after a file was handled without failure last_row does not exceed the number
\* of records it holds
LastRowFollowsFile ==
    [][prog = "ftp"
       => /\ \A s \in DOMAIN db' :
               (s \notin DOMAIN db \/ db'[s] # db[s]) => db'[s].last_row = Len(raw[s])
          /\ \A s \in DOMAIN db \cap DOMAIN db' :
               db'[s].last_row < db[s].last_row => Len(raw[s]) < db[s].last_row
          /\ \A s \in fresh' : s \in DOMAIN db' /\ db'[s].last_row <= Len(raw'[s])]_vars

\* C13 witness: a file that shrank was handled without failure by a cycle that
\* aggregated nothing, and its last_row is the number of records it holds
ShrunkFileHandled ==
    /\ prog = "ftp"
    /\ \E s \in fresh \cap shrunk :
            /\ s \in DOMAIN db
            /\ db[s].last_row = Len(raw[s])
            /\ steps = <<"update">>

\* a cycle handles a file that holds fewer records than its stored last_row
TruncatedFileStep ==
    /\ prog = "ftp"
    /\ SourceStep
    /\ txt_files[idx] \in DOMAIN db
    /\ db[txt_files[idx]].last_row > Len(raw[txt_files[idx]])

\* C14: a cycle that finds the stored last_row beyond the end of the file does not
\* fail: it takes all the rows of the file as new (it aggregates every
\* completed-hour record of the file, and updates without aggregating only when
\* there is none) and a progress update stores the number of rows of the file
TruncationResetsOffset ==
    [][TruncatedFileStep
       => LET s == txt_files[idx]
              complete == CompleteData(raw[s], DOMAIN raw[s], FloorHour(clock))
          IN  /\ pc' = "crashed" => "db_error" \in Range(steps')
              /\ pc' = "send" => RecsOf(csv_data') = {<<s, i>> : i \in complete}
              /\ "update" \in Range(steps') /\ "append" \notin Range(steps')
                    => complete = {}
              /\ db' # db => db'[s].last_row = Len(raw[s])]_vars

\* C14 witness: a batch was aggregated by a cycle that reset the offset
BatchAfterReset ==
    /\ prog = "ftp"
    /\ pc = "send"
    /\ steps = <<"reset", "append", "update">>
    /\ db[BatchSource(csv_data)].last_row = Len(raw[BatchSource(csv_data)])

\* the rows a cycle would take as the new batch of source s
NewRows(d, s, recs) ==
    IF prog = "ftp"
    THEN (ResetOffset(get_processing_status_for_file(d, s).last_row, Len(recs)) + 1)..Len(recs)
    ELSE DOMAIN recs

\* the source the next step of the cycle handles
CurrentSource == IF prog = "ftp" THEN txt_files[idx] ELSE PROCESSING_KEY

TransportErrorSkipsSource ==
    [][(/\ prog = "ftp"
        /\ \/ pc = "connect" /\ pc' = "sleep"
           \/ pc = "list" /\ pc' # "list" /\ txt_files' = <<>>
           \/ pc = "process" /\ SourceStep /\ steps' = <<"retrieve_failed">>)
       => /\ db' = db
          /\ csv' = csv
          /\ emitted' = emitted
          /\ \A s \in Sources : NewRows(db', s, raw'[s]) = NewRows(db, s, raw[s])
          /\ pc = "list" => pc' = "quit"
          /\ pc = "process"
                => /\ idx' = idx + 1
                   /\ pc' = IF idx < Len(txt_files) THEN "process" ELSE "quit"]_vars

\* C16 witness: the retrieval of the first file, which holds new rows, has failed
\* and the second file is about to be handled
NextFileAfterRetrievalFailure ==
    /\ prog = "ftp"
    /\ pc = "process"
    /\ idx = 2
    /\ steps = <<"retrieve_failed">>
    /\ NewRows(db, txt_files[1], raw[txt_files[1]]) # {}

\* the columns of processing_status, and the keyword arguments a call can pass
StatusFields ==
    IF prog = "ftp" THEN {"last_raw_timestamp", "last_avg_timestamp", "last_row"}
    ELSE {"last_raw_timestamp", "last_avg_timestamp"}

KeywordArgs ==
    {[c \in passed |-> IF c = "last_row" THEN 0
                       ELSE IF c = "last_raw_timestamp" THEN Strftime(SecPerMin)
                       ELSE Strftime(TicksPerHour)] :
        passed \in SUBSET StatusFields}

Upsert(d, key, kw) ==
    IF prog = "ftp" THEN update_processing_status(d, key, kw)
    ELSE sql_update_processing_status(d, key, kw)

\* the row of key after the call, as the claim has it
UpsertedRow(d, key, kw) ==
    [c \in StatusFields |->
        IF c \in DOMAIN kw THEN kw[c]
        ELSE IF key \in DOMAIN d THEN d[key][c]
        ELSE IF c = "last_row" THEN 0 ELSE ""]

\* C17: update_processing_status changes, in an existing row, the fields passed and
\* no other, creates a missing row with "" and 0 for the fields not passed, and
\* touches no other row; the cycle that finds no completed hour changes last_row only
UpsertChangesPassedFieldsOnly ==
    /\ [](\A key \in Sources, kw \in KeywordArgs :
            pc \in {"process", "fetch"} =>
            LET after == Upsert(db, key, kw)
            IN  /\ DOMAIN after = DOMAIN db \cup {key}
                /\ after[key] = UpsertedRow(db, key, kw)
                /\ \A other \in DOMAIN db \ {key} : after[other] = db[other])
    /\ [][(prog = "ftp" /\ SourceStep /\ "update" \in Range(steps') /\ "append" \notin Range(steps'))
            => LET s == txt_files[idx]
               IN  /\ s \in DOMAIN db'
                   /\ \A other \in DOMAIN db' \ {s} : other \in DOMAIN db /\ db'[other] = db[other]
                   /\ db'[s].last_raw_timestamp
                        = IF s \in DOMAIN db THEN db[s].last_raw_timestamp ELSE ""
                   /\ db'[s].last_avg_timestamp
                        = IF s \in DOMAIN db THEN db[s].last_avg_timestamp ELSE ""]_vars

\* C17 witness: a cycle that found no completed hour has updated the row of a
\* file whose timestamps were set by an earlier cycle
OffsetOnlyUpdate ==
    /\ prog = "ftp"
    /\ steps = <<"update">>
    /\ \E s \in fresh :
            /\ s \in DOMAIN db
            /\ IsSet(db[s].last_raw_timestamp)
            /\ IsSet(db[s].last_avg_timestamp)
            /\ \E r \in pending : r[1] = s /\ r[2] = db[s].last_row

\* what the handling of the current source did, the offset reset left aside
StepsDone == SelectSeq(steps, LAMBDA x : x # "reset")

\* C18: a batch is handed to delivery only after its rows were appended to the CSV
\* and the ProcessingStatus was updated, in this order; it is delivered at most
\* once; and the rows delivered are the rows appended by this cycle
AppendUpdateDeliver ==
    /\ pc = "send"
        => /\ StepsDone = <<"append", "update">>
           /\ out_name \in DOMAIN csv
           /\ Len(csv[out_name]) > Len(csv_data)
           /\ SubSeq(csv[out_name], Len(csv[out_name]) - Len(csv_data) + 1, Len(csv[out_name]))
                 = csv_data
    /\ Range(steps) \cap {"deliver", "deliver_failed"} # {}
        => StepsDone \in {<<"append", "update", "deliver">>,
                          <<"append", "update", "deliver_failed">>}

IsPrefix(a, b) == Len(a) <= Len(b) /\ SubSeq(b, 1, Len(a)) = a

\* C19: a CSV artifact only grows at its end, and its header is its first line
\* and no other
CsvAppendOnly ==
    [][/\ \A n \in DOMAIN csv : n \in DOMAIN csv' /\ IsPrefix(csv[n], csv'[n])
       /\ \A n \in DOMAIN csv' :
            /\ csv'[n][1] = HEADER
            /\ \A k \in 2..Len(csv'[n]) : csv'[n][k] # HEADER]_vars

\* C19 witness: one monthly artifact holds rows of two files
TwoSourcesOneArtifact ==
    \E n \in DOMAIN csv : \E j, k \in 2..Len(csv[n]) :
        RowSource(csv[n][j]) # RowSource(csv[n][k])

\* C20: in sql_version_example.py the records a cycle takes as new are the records
\* that are in no aggregate so far (the table being readable): none that
\* contributed, all that did not
NewRecordsAreTheUnaggregated ==
    (prog = "sql" /\ clean /\ pc = "fetch" /\ ~ParseFails(raw[PROCESSING_KEY]))
    => fetch_new_sensor_data(db, raw[PROCESSING_KEY])
         = {i \in DOMAIN raw[PROCESSING_KEY] :
                \A k \in DOMAIN emitted : <<PROCESSING_KEY, i>> \notin emitted[k].recs}

\* the cycle finds no new data in the source its next step handles
ZeroNewData ==
    IF prog = "ftp" THEN NothingAdded
    ELSE fetch_new_sensor_data(db, raw[PROCESSING_KEY]) = {}

\* the for loop of upload_to_iqair.py takes the files of the listing one after
\* another, each once, and the cycle sleeps only after the last one
SourcesInOrder ==
    /\ (prog = "ftp" /\ pc = "process") => txt_files = SortedTxtFiles
    /\ (prog = "ftp" /\ pc \in {"process", "send"} /\ (pc' # pc \/ idx' # idx))
         => \/ pc = "process" /\ pc' = "send" /\ idx' = idx
            \/ /\ idx' = idx + 1
               /\ pc' = IF idx < Len(txt_files) THEN "process" ELSE "quit"
    /\ (prog = "ftp" /\ pc # "sleep" /\ pc' = "sleep")
         => \/ pc = "connect"
            \/ pc = "quit" /\ idx = Len(txt_files) + 1

\* a cycle that finds no source, or no new data in a source, appends nothing,
\* changes no ProcessingStatus and delivers nothing
QuietCycle ==
    /\ (prog = "ftp" /\ pc = "list" /\ pc' # "list" /\ txt_files' = <<>>)
         => (db' = db /\ csv' = csv /\ pc' = "quit")
    /\ (SourceStep /\ ZeroNewData) => (db' = db /\ csv' = csv /\ pc' # "send")

\* C21: a cycle attempts every source of the listing once, in the sorted order,
\* and sleeps only after the last one; a cycle that finds no source or no new
\* data has no effect; and no step leaves the loop for good
EverySourceOncePerCycle ==
    [][SourcesInOrder /\ QuietCycle /\ pc' # "crashed"]_vars

\* the positions a cycle takes as the new records of the source it handles
NewRecords ==
    IF prog = "ftp" THEN NewRows(db, CurrentSource, raw[CurrentSource])
    ELSE fetch_new_sensor_data(db, raw[PROCESSING_KEY])

\* C22: the batch a cycle hands on has one row per completed hour found among the
\* new records, each taken over the new records of its hour, in strictly
\* ascending hour order; the stored last_avg_timestamp is the latest of these
\* hours and the stored last_raw_timestamp is the newest completed-hour record,
\* floored to the minute
BatchOneRowPerHourAscending ==
    [][(SourceStep /\ pc' = "send")
       => LET s == CurrentSource
              done == {i \in NewRecords : FloorHour(raw[s][i]) < FloorHour(clock)}
              hours == {FloorHour(raw[s][i]) : i \in done}
          IN  /\ csv_data' # NoBatch
              /\ Len(csv_data') = Cardinality(hours)
              /\ \A k \in DOMAIN csv_data' :
                    /\ Strptime(csv_data'[k].datetime) \in hours
                    /\ csv_data'[k].recs
                         = {<<s, i>> : i \in {j \in done :
                                FloorHour(raw[s][j]) = Strptime(csv_data'[k].datetime)}}
              /\ \A j, k \in DOMAIN csv_data' :
                    j < k => Strptime(csv_data'[j].datetime) < Strptime(csv_data'[k].datetime)
              /\ db'[s].last_avg_timestamp = Strftime(Max(hours))
              /\ db'[s].last_raw_timestamp
                    = Strftime(FloorMin(Max({raw[s][i] : i \in done})))]_vars

\* C22 witness: a batch of two rows, taken over a source in which a record of the
\* later hour stands before a record of the earlier hour
BatchFromUnorderedRecords ==
    /\ pc = "send"
    /\ Len(csv_data) = 2
    /\ \E q, r \in RecsOf(csv_data) : q[2] < r[2] /\ StampOf(q) > StampOf(r)

\* C23: in every row of processing_status last_raw_timestamp and
\* last_avg_timestamp are both unset or both set, and when set
\* last_avg_timestamp is on an hour boundary and is the hour of last_raw_timestamp
TimestampsSetTogether ==
    \A s \in DOMAIN db :
        /\ IsSet(db[s].last_raw_timestamp) <=> IsSet(db[s].last_avg_timestamp)
        /\ IsSet(db[s].last_avg_timestamp)
             => /\ Strptime(db[s].last_avg_timestamp) % TicksPerHour = 0
                /\ Strptime(db[s].last_avg_timestamp)
                      = FloorHour(Strptime(db[s].last_raw_timestamp))

\* C23 witness: a row whose last_raw_timestamp is not on an hour boundary
RawTimestampWithinHour ==
    \E s \in DOMAIN db :
        /\ IsSet(db[s].last_raw_timestamp)
        /\ Strptime(db[s].last_raw_timestamp) % TicksPerHour # 0

\* the row the handling of file s stores, computed from the row of s, the
\* records of s and the clock, and from nothing else
OwnRow(s) ==
    LET own == [k \in DOMAIN db \cap {s} |-> db[k]]
        old == get_processing_status_for_file(own, s)
        done == CompleteData(raw[s], NewRows(own, s, raw[s]), FloorHour(clock))
    IN  IF done = {}
        THEN [last_row |-> Len(raw[s]),
              last_raw_timestamp |-> IF s \in DOMAIN db THEN old.last_raw_timestamp ELSE "",
              last_avg_timestamp |-> IF s \in DOMAIN db THEN old.last_avg_timestamp ELSE ""]
        ELSE [last_row |-> Len(raw[s]),
              last_raw_timestamp |-> Strftime(FloorMin(Max({raw[s][i] : i \in done}))),
              last_avg_timestamp |-> Strftime(Max({FloorHour(raw[s][i]) : i \in done}))]

\* C24: in upload_to_iqair.py no row of processing_status is removed; a row
\* changes only while its own file is handled; the handling of a file leaves
\* every other row as it was, and the row it stores is made of the file's own
\* row, records and the clock, also when two files share a monthly CSV
OtherRowsUntouched ==
    [][prog = "ftp"
       => /\ \A k \in DOMAIN db : k \in DOMAIN db'
          /\ db' # db
               => /\ pc = "process"
                  /\ txt_files[idx] \in DOMAIN db'
                  /\ db'[txt_files[idx]] = OwnRow(txt_files[idx])
                  /\ \A other \in DOMAIN db' \ {txt_files[idx]} :
                        other \in DOMAIN db /\ db'[other] = db[other]]_vars

\* C24 witness: the second file of the listing was aggregated into the monthly
\* CSV that holds rows of the first, and the rows of the two files differ
SecondFileUpdatedBesideFirst ==
    /\ prog = "ftp"
    /\ pc = "send"
    /\ idx = 2
    /\ txt_files[1] \in DOMAIN db
    /\ db[txt_files[1]] # db[txt_files[2]]
    /\ \E k \in 2..Len(csv[out_name]) : RowSource(csv[out_name][k]) = txt_files[1]

\* C25: a cycle of upload_to_iqair.py that reads a file with no data row into a
\* dataframe (a file that cannot be read, one of zero bytes among them, is a
\* failed retrieval) stores last_row = 0 for it, in a new row with empty
\* timestamps or in the existing row with its timestamps unchanged, appends
\* nothing and delivers nothing; the cycle that next finds rows in the file
\* takes all of them as new
EmptyFileResetsOffset ==
    [][(prog = "ftp" /\ SourceStep)
       => LET s == txt_files[idx]
          IN  /\ raw[s] = <<>>
                   => /\ csv' = csv
                      /\ emitted' = emitted
                      /\ pc' # "send"
                      /\ steps' \in {<<"update">>, <<"retrieve_failed">>, <<"db_error">>}
                      /\ steps' # <<"update">> => db' = db
                      /\ steps' = <<"update">>
                           => /\ s \in DOMAIN db'
                              /\ db'[s] = [last_row |-> 0,
                                           last_raw_timestamp |->
                                               IF s \in DOMAIN db
                                               THEN db[s].last_raw_timestamp ELSE "",
                                           last_avg_timestamp |->
                                               IF s \in DOMAIN db
                                               THEN db[s].last_avg_timestamp ELSE ""]
              /\ (s \in DOMAIN db /\ db[s].last_row = 0 /\ raw[s] # <<>>)
                   => /\ NewRows(db, s, raw[s]) = DOMAIN raw[s]
                      /\ pc' = "send"
                           => RecsOf(csv_data')
                                = {<<s, i>> : i \in CompleteData(raw[s], DOMAIN raw[s],
                                                                 FloorHour(clock))}]_vars

\* C25 witness: a file that was aggregated before and then emptied has been
\* handled: its last_row is 0 and its timestamps are still set
EmptiedFileHandled ==
    /\ prog = "ftp"
    /\ steps = <<"update">>
    /\ \E s \in fresh \cap shrunk :
            /\ raw[s] = <<>>
            /\ db[s].last_row = 0
            /\ IsSet(db[s].last_raw_timestamp)
            /\ IsSet(db[s].last_avg_timestamp)

====
